---- MODULE Spec2Model ----
(***************************************************************************)
(* A model of the Yarrow generator of yarrow.py: the generator object's    *)
(* fields, its non-reentrant lock, and the public methods as they are      *)
(* executed, statement group by statement group, by concurrent threads.    *)
(***************************************************************************)
EXTENDS Integers, Sequences, FiniteSets, TLC

(* ------------------------------ bounds -------------------------------- *)
\* Largest max_pool_size given to the constructor or to configure.
MaxPool == 2
\* Longest single add_entropy argument.
MaxData == 2
\* Cap on the total number of non-empty bytes ever added (the pool of a
\* generator with max_pool_size = 0 grows without bound otherwise).
MaxTotal == 3
\* The clock runs from 0 to MaxTime.
MaxTime == 1
\* Most entries in one add_entropy_sources call.
MaxSources == 3
\* Number of distinct 32-byte values the model tells apart.
NumDigests == 2

(* ------------------------- program constants -------------------------- *)
\* hashlib.sha256(...).digest() and os.urandom(32) are 32 bytes long.
DigestSize == 32
\* Default reseed_interval of the constructor.
DefaultReseedInterval == 10000
\* Python's None for an argument of configure that is not supplied.
None == -1

\* The caller threads.
Threads == {1, 2}
\* Values a byte of entropy takes in the model (two, so that order shows).
Bytes == {1, 2}

VARIABLES
    entropy_pool,     \* self.entropy_pool : sequence of bytes
    seed,             \* self.seed : <<>> or a 32-byte digest
    reseed_interval,  \* self.reseed_interval
    max_pool_size,    \* self.max_pool_size
    last_reseed_time, \* self.last_reseed_time
    lock,             \* self.lock : 0 when free, else the thread holding it
    now,              \* what time.time() returns
    pc,               \* per thread: the place it has reached in its call
    call,             \* per thread: the public method called and its arguments
    ret,              \* per thread: what the last call returned or raised
    prng,             \* per thread: local prng of generate_random_bytes
    random_bytes,     \* per thread: local random_bytes of generate_random_bytes
    random_data,      \* per thread: local random_data of generate_random_number
    added,            \* history: concatenation of all non-empty data added
    resized           \* history: max_pool_size was changed after construction

vars == <<entropy_pool, seed, reseed_interval, max_pool_size, last_reseed_time,
          lock, now, pc, call, ret, prng, random_bytes, random_data, added, resized>>

fields == <<entropy_pool, seed, reseed_interval, max_pool_size, last_reseed_time>>
locals == <<prng, random_bytes, random_data>>
history == <<added, resized>>

(* ------------------------------ helpers ------------------------------- *)
Min(a, b) == IF a < b THEN a ELSE b
Max(a, b) == IF a > b THEN a ELSE b

\* All sequences over S of length 0..n.
SeqsUpTo(S, n) == UNION {[1..k -> S] : k \in 0..n}

\* Python's s[i:] for any integer i: a negative i counts from the end,
\* and -0 is 0, so s[-0:] is the whole of s.
SliceFrom(s, i) ==
    LET n == Len(s)
        j == IF i < 0 THEN Max(n + i, 0) ELSE Min(i, n)
    IN  SubSeq(s, j + 1, n)

\* Python's s[:n] for n >= 0.
SliceTo(s, n) == SubSeq(s, 1, Min(n, Len(s)))

\* The last m elements of s (all of s when it is shorter), m >= 0.
LastN(s, m) == SubSeq(s, Len(s) - Min(m, Len(s)) + 1, Len(s))

RECURSIVE SumSeq(_)
SumSeq(s) == IF s = <<>> THEN 0 ELSE s[1] + SumSeq(Tail(s))

\* The 32-byte value numbered id.
DigestBytes(id) == [i \in 1..DigestSize |-> IF i = 1 THEN id ELSE 0]

\* A digest twice as long, as hexdigest() would give.
Sha256Hex(b) ==
    DigestBytes((SumSeq(b) + 1) % NumDigests) \o DigestBytes((SumSeq(b) + 1) % NumDigests)

\* hashlib.sha256(b).digest(): a fixed function from byte strings to
\* 32-byte strings; on 32-byte values it has no fixed point.
Sha256(b) == DigestBytes((SumSeq(b) + 1) % NumDigests)

\* What os.urandom(32) can return.
Urandom == {DigestBytes(id) : id \in 0..(NumDigests - 1)}

NoCall == [op |-> "none", args |-> <<>>]
NoRet == [kind |-> "none", val |-> <<>>]
Returned(v) == [kind |-> "return", val |-> v]
Raised(e) == [kind |-> e, val |-> <<>>]

(* ------------------------------- Init --------------------------------- *)
\* Lines 9-21: the generator after Yarrow(ri, mps), no thread in a call.
Constructed(ri, mps) ==
    /\ entropy_pool = <<>>
    /\ seed = <<>>
    /\ reseed_interval = ri
    /\ max_pool_size = mps
    /\ now = 0
    /\ last_reseed_time = now
    /\ lock = 0
    /\ pc = [t \in Threads |-> "idle"]
    /\ call = [t \in Threads |-> NoCall]
    /\ ret = [t \in Threads |-> NoRet]
    /\ prng = [t \in Threads |-> <<>>]
    /\ random_bytes = [t \in Threads |-> <<>>]
    /\ random_data = [t \in Threads |-> <<>>]
    /\ added = <<>>
    /\ resized = FALSE

\* Reseed intervals: one the clock reaches, one the seed's length reaches,
\* and the default, which neither reaches.
ReseedIntervals == {1, DigestSize, DefaultReseedInterval}
PoolSizes == 0..MaxPool

(* --------------------------- calls and lock --------------------------- *)
Ready(t) == pc[t] \in {"idle", "done"}

\* Thread t calls public method op with args and reaches its first statement.
Begin(t, op, args, label) ==
    /\ Ready(t)
    /\ pc' = [pc EXCEPT ![t] = label]
    /\ call' = [call EXCEPT ![t] = [op |-> op, args |-> args]]
    /\ ret' = [ret EXCEPT ![t] = NoRet]
    /\ UNCHANGED <<fields, lock, now, locals, history>>

\* Thread t returns from its public method with outcome r.
Finish(t, r) ==
    /\ pc' = [pc EXCEPT ![t] = "done"]
    /\ ret' = [ret EXCEPT ![t] = r]
    /\ UNCHANGED call

\* The places where a thread waits at `with self.lock:`.
LockWait == {"ae_lock", "cf_lock", "gs_lock", "rs_lock"}
AfterLock(label) ==
    CASE label = "ae_lock" -> "ae_body"
      [] label = "cf_lock" -> "cf_body"
      [] label = "gs_lock" -> "gs_body"
      [] label = "rs_lock" -> "rs_body"

\* An acquire that does not wait for the lock to be free.
AcquireWithoutWaiting(t) ==
    /\ pc[t] \in LockWait
    /\ lock' = t
    /\ pc' = [pc EXCEPT ![t] = AfterLock(pc[t])]
    /\ UNCHANGED <<fields, now, call, ret, locals, history>>

\* threading.Lock.acquire(): blocks until the lock is free; not reentrant.
Acquire(t) ==
    /\ pc[t] \in LockWait
    /\ lock = 0
    /\ lock' = t
    /\ pc' = [pc EXCEPT ![t] = AfterLock(pc[t])]
    /\ UNCHANGED <<fields, now, call, ret, locals, history>>

(* ----------------------------- add_entropy ---------------------------- *)
\* Bytes that calls of add_entropy already under way will still add.
RECURSIVE TotalLen(_)
TotalLen(sources) ==
    IF sources = <<>> THEN 0 ELSE Len(Head(sources)) + TotalLen(Tail(sources))

\* The bytes thread t has passed to add_entropy or add_entropy_sources
\* that are not in the pool yet.
Pending(t) ==
    IF pc[t] \notin {"aes_loop", "ae_lock", "ae_body"} THEN 0
    ELSE IF call[t].op = "add_entropy_sources"
         THEN TotalLen(SubSeq(call[t].args[1], call[t].i, Len(call[t].args[1])))
         ELSE Len(call[t].args[1])

RECURSIVE PendingFrom(_)
PendingFrom(T) ==
    IF T = {} THEN 0
    ELSE LET t == CHOOSE x \in T : TRUE
         IN  Pending(t) + PendingFrom(T \ {t})

AddEntropyCall(t, data) ==
    /\ Len(added) + PendingFrom(Threads) + Len(data) <= MaxTotal
    /\ Begin(t, "add_entropy", <<data>>, "ae_lock")

\* add_entropy without its `if data:` test: the bound is applied anyway.
PoolAfterAddUntested(pool, data, mps) ==
    LET extended == pool \o data
    IN  IF Len(extended) > mps THEN SliceFrom(extended, -mps) ELSE extended

\* Lines 30-35: the pool after add_entropy(data) with bound mps.
PoolAfterAdd(pool, data, mps) ==
    IF data # <<>>
    THEN LET extended == pool \o data
         IN  IF Len(extended) > mps THEN SliceFrom(extended, -mps) ELSE extended
    ELSE pool

\* The argument of the add_entropy that thread t is running: its own
\* argument, or the entry add_entropy_sources has reached (line 60).
AddEntropyData(t) ==
    IF call[t].op = "add_entropy_sources"
    THEN call[t].args[1][call[t].i]
    ELSE call[t].args[1]

\* Lines 29-35; control returns to the caller, or to the loop of line 59.
AddEntropyBody(t) ==
    /\ pc[t] = "ae_body"
    /\ entropy_pool' = PoolAfterAdd(entropy_pool, AddEntropyData(t), max_pool_size)
    /\ added' = added \o AddEntropyData(t)
    /\ lock' = 0
    /\ IF call[t].op = "add_entropy_sources"
       THEN /\ pc' = [pc EXCEPT ![t] = "aes_loop"]
            /\ call' = [call EXCEPT ![t].i = @ + 1]
            /\ UNCHANGED ret
       ELSE Finish(t, Returned(<<>>))
    /\ UNCHANGED <<seed, reseed_interval, max_pool_size, last_reseed_time,
                   now, locals, resized>>

(* ------------------------- add_entropy_sources ------------------------ *)
\* Line 53: the call; i is the position of the loop of line 59 in
\* sources, and before is the pool as it was at the call.
AddEntropySourcesCall(t, sources) ==
    /\ Ready(t)
    /\ Len(added) + PendingFrom(Threads) + TotalLen(sources) <= MaxTotal
    /\ pc' = [pc EXCEPT ![t] = "aes_loop"]
    /\ call' = [call EXCEPT ![t] =
                  [op |-> "add_entropy_sources", args |-> <<sources>>,
                   i |-> 1, before |-> entropy_pool]]
    /\ ret' = [ret EXCEPT ![t] = NoRet]
    /\ UNCHANGED <<fields, lock, now, locals, history>>

\* A loop that ends at the first empty entry.
AddEntropySourcesLoopStopsAtEmpty(t) ==
    /\ pc[t] = "aes_loop"
    /\ IF \/ call[t].i > Len(call[t].args[1])
          \/ call[t].args[1][call[t].i] = <<>>
       THEN Finish(t, Returned(<<>>))
       ELSE /\ pc' = [pc EXCEPT ![t] = "ae_lock"]
            /\ UNCHANGED <<call, ret>>
    /\ UNCHANGED <<fields, lock, now, locals, history>>

\* Lines 59-60: `for source in sources: self.add_entropy(source)`.
AddEntropySourcesLoop(t) ==
    /\ pc[t] = "aes_loop"
    /\ IF call[t].i > Len(call[t].args[1])
       THEN Finish(t, Returned(<<>>))
       ELSE /\ pc' = [pc EXCEPT ![t] = "ae_lock"]
            /\ UNCHANGED <<call, ret>>
    /\ UNCHANGED <<fields, lock, now, locals, history>>

(* ------------------------ capabilities not built --------------------- *)
\* A method whose body is `pass`: called, it returns None at once.
Pass(t, op, args) ==
    /\ Ready(t)
    /\ call' = [call EXCEPT ![t] = [op |-> op, args |-> args]]
    /\ pc' = [pc EXCEPT ![t] = "done"]
    /\ ret' = [ret EXCEPT ![t] = Returned(<<>>)]
    /\ UNCHANGED <<fields, lock, now, locals, history>>

\* Lines 107-112.
AddHardwareEntropy(t) == Pass(t, "add_hardware_entropy", <<>>)

\* Lines 45-51.
AuthenticateSource(t, source) == Pass(t, "authenticate_source", <<source>>)

(* ------------------------------ configure ----------------------------- *)
ConfigureCall(t, ri, mps) == Begin(t, "configure", <<ri, mps>>, "cf_lock")

\* configure without its `is not None` tests: the argument is always stored.
ConfiguredFieldAlways(current, arg) == arg

\* Lines 169-170 and 171-172: a field after configure was given arg for it.
ConfiguredField(current, arg) == IF arg # None THEN arg ELSE current

ConfigureBody(t) ==
    /\ pc[t] = "cf_body"
    /\ reseed_interval' = ConfiguredField(reseed_interval, call[t].args[1])
    /\ max_pool_size' = ConfiguredField(max_pool_size, call[t].args[2])
    /\ resized' = (resized \/ max_pool_size' # max_pool_size)
    /\ lock' = 0
    /\ Finish(t, Returned(<<>>))
    /\ UNCHANGED <<entropy_pool, seed, last_reseed_time, now, locals, added>>

(* ------------------------ generate_seed, reseed ----------------------- *)
GenerateSeedCall(t) == Begin(t, "generate_seed", <<>>, "gs_lock")

\* Lines 66-67. Called from reseed (line 75) the method then returns to
\* line 76, with the lock already released by its own `with`; the `with`
\* of reseed then releases an unlocked lock, which raises RuntimeError.
GenerateSeedBody(t) ==
    /\ pc[t] = "gs_body"
    /\ seed' = Sha256(entropy_pool)
    /\ lock' = 0
    /\ IF call[t].op = "generate_seed"
       THEN /\ Finish(t, Returned(<<>>))
            /\ UNCHANGED last_reseed_time
       ELSE /\ last_reseed_time' = now
            /\ Finish(t, Raised("RuntimeError"))
    /\ UNCHANGED <<entropy_pool, reseed_interval, max_pool_size, now, locals, history>>

ReseedCall(t) == Begin(t, "reseed", <<>>, "rs_lock")

\* Line 74: the reseed condition.
ReseedDue ==
    \/ Len(seed) >= reseed_interval
    \/ now - last_reseed_time >= reseed_interval

\* Where a thread continues after reseed() has returned.
AfterReseed(op) ==
    CASE op = "generate_random_bytes" -> "grb_urandom"
      [] op = "generate_random_number" -> "grn_bytes"
      [] OTHER -> "done"

\* A reseed that stamps last_reseed_time on every pass, due or not.
ReseedBodyStampsAlways(t) ==
    /\ pc[t] = "rs_body"
    /\ IF ReseedDue
       THEN /\ pc' = [pc EXCEPT ![t] = "gs_lock"]
            /\ UNCHANGED <<lock, ret>>
       ELSE /\ lock' = 0
            /\ pc' = [pc EXCEPT ![t] = AfterReseed(call[t].op)]
            /\ ret' = [ret EXCEPT ![t] =
                         IF call[t].op = "reseed" THEN Returned(<<>>) ELSE NoRet]
    /\ last_reseed_time' = now
    /\ UNCHANGED <<entropy_pool, seed, reseed_interval, max_pool_size,
                   now, call, locals, history>>

\* Lines 74-76, holding the lock: when the condition holds, generate_seed
\* is called and waits at its own `with self.lock:`.
ReseedBody(t) ==
    /\ pc[t] = "rs_body"
    /\ IF ReseedDue
       THEN /\ pc' = [pc EXCEPT ![t] = "gs_lock"]
            /\ UNCHANGED <<lock, ret>>
       ELSE /\ lock' = 0
            /\ pc' = [pc EXCEPT ![t] = AfterReseed(call[t].op)]
            /\ ret' = [ret EXCEPT ![t] =
                         IF call[t].op = "reseed" THEN Returned(<<>>) ELSE NoRet]
    /\ UNCHANGED <<fields, now, call, locals, history>>

(* ------------------------ generate_random_bytes ----------------------- *)
\* Line 84: the method starts with self.reseed().
GenerateRandomBytesCall(t, n) == Begin(t, "generate_random_bytes", <<n>>, "rs_lock")

\* A caller's next call of generate_random_bytes, the caller keeping what
\* its previous call was and what it returned (a = g.f(..); b = g.generate_random_bytes(n)).
GenerateRandomBytesNext(t, n) ==
    /\ pc[t] = "done"
    /\ pc' = [pc EXCEPT ![t] = "rs_lock"]
    /\ call' = [call EXCEPT ![t] =
                  [op |-> "generate_random_bytes", args |-> <<n>>,
                   after |-> [op |-> call[t].op, args |-> call[t].args, ret |-> ret[t]]]]
    /\ ret' = [ret EXCEPT ![t] = NoRet]
    /\ UNCHANGED <<fields, lock, now, locals, history>>

\* Lines 85-86.
GrbUrandom(t, u) ==
    /\ pc[t] = "grb_urandom"
    /\ prng' = [prng EXCEPT ![t] = u]
    /\ random_bytes' = [random_bytes EXCEPT ![t] = <<>>]
    /\ pc' = [pc EXCEPT ![t] = "grb_loop"]
    /\ UNCHANGED <<fields, lock, now, call, ret, random_data, history>>

\* generate_random_bytes without the final slice: whole blocks are returned.
GrbResultWholeBlocks(buf, n) == buf

\* Line 90: bytes(random_bytes[:n]).
GrbResult(buf, n) == SliceTo(buf, n)

\* Lines 87-90: one test of the loop condition, then one round or the return.
GrbLoop(t) ==
    /\ pc[t] = "grb_loop"
    /\ IF Len(random_bytes[t]) < call[t].args[1]
       THEN /\ prng' = [prng EXCEPT ![t] = Sha256(prng[t])]
            /\ random_bytes' = [random_bytes EXCEPT ![t] = random_bytes[t] \o prng'[t]]
            /\ UNCHANGED <<pc, call, ret>>
       ELSE /\ Finish(t, Returned(GrbResult(random_bytes[t], call[t].args[1])))
            /\ prng' = [prng EXCEPT ![t] = <<>>]
            /\ random_bytes' = [random_bytes EXCEPT ![t] = <<>>]
    /\ UNCHANGED <<fields, lock, now, random_data, history>>

(* ----------------------- generate_random_number ----------------------- *)
\* int.bit_length(): the number of bits of the absolute value.
RECURSIVE BitLength(_)
BitLength(x) ==
    LET a == IF x < 0 THEN -x ELSE x
    IN  IF a = 0 THEN 0 ELSE 1 + BitLength(a \div 2)

\* int.from_bytes(s, byteorder='big').
RECURSIVE FromBytesBig(_)
FromBytesBig(s) ==
    IF s = <<>> THEN 0
    ELSE FromBytesBig(SubSeq(s, 1, Len(s) - 1)) * 256 + s[Len(s)]

\* Python's a % b for a >= 0 and b # 0: the result has the sign of b.
PyMod(a, b) ==
    IF b > 0 THEN a % b
    ELSE LET m == a % (-b) IN IF m = 0 THEN 0 ELSE m + b

\* Line 121.
RangeSize(low, high) == high - low + 1
\* Line 122.
NumBytes(range_size) == (BitLength(range_size) + 7) \div 8

\* Line 125 without the reduction modulo range_size.
RandomNumberUnreduced(low, range_size, random_number) ==
    low + random_number

\* Line 125, for range_size # 0.
RandomNumber(low, range_size, random_number) ==
    low + PyMod(random_number, range_size)

\* Lines 121-123: up to the self.reseed() that generate_random_bytes starts with.
GenerateRandomNumberCall(t, low, high) ==
    Begin(t, "generate_random_number", <<low, high>>, "rs_lock")

\* What a byte can be.
Byte == 0..255

\* Line 123 after the reseed: generate_random_bytes(num_bytes) hashes
\* os.urandom(32) and returns num_bytes bytes of it, here any num_bytes bytes.
GrnBytes(t) ==
    /\ pc[t] = "grn_bytes"
    /\ \E data \in [1..NumBytes(RangeSize(call[t].args[1], call[t].args[2])) -> Byte] :
          random_data' = [random_data EXCEPT ![t] = data]
    /\ pc' = [pc EXCEPT ![t] = "grn_result"]
    /\ UNCHANGED <<fields, lock, now, call, ret, prng, random_bytes, history>>

\* Lines 124-125: a zero range_size makes `%` raise ZeroDivisionError.
GrnResult(t) ==
    /\ pc[t] = "grn_result"
    /\ LET low == call[t].args[1]
           range_size == RangeSize(low, call[t].args[2])
           random_number == FromBytesBig(random_data[t])
       IN  IF range_size = 0
           THEN Finish(t, Raised("ZeroDivisionError"))
           ELSE Finish(t, Returned(<<RandomNumber(low, range_size, random_number)>>))
    /\ random_data' = [random_data EXCEPT ![t] = <<>>]
    /\ UNCHANGED <<fields, lock, now, prng, random_bytes, history>>

(* -------------------------------- time -------------------------------- *)
Tick ==
    /\ now < MaxTime
    /\ now' = now + 1
    /\ UNCHANGED <<fields, lock, pc, call, ret, locals, history>>

(* ---------------------------- specification --------------------------- *)
\* Concurrent callers: every method that takes the lock, called from each
\* thread, on small arguments.
SmallData == SeqsUpTo({1}, 1)
SmallConfigArgs == {<<1, None>>, <<None, 0>>}
\* Requested lengths: none, one whole block, one byte more than a block.
Lengths == {0, DigestSize, DigestSize + 1}

Init == \E ri \in ReseedIntervals : Constructed(ri, 1)

Next ==
    \/ \E t \in Threads :
          \/ \E data \in SmallData : AddEntropyCall(t, data)
          \/ AddEntropyBody(t)
          \/ \E a \in SmallConfigArgs : ConfigureCall(t, a[1], a[2])
          \/ ConfigureBody(t)
          \/ GenerateSeedCall(t)
          \/ GenerateSeedBody(t)
          \/ ReseedCall(t)
          \/ ReseedBody(t)
          \/ \E n \in Lengths : GenerateRandomBytesCall(t, n)
          \/ \E u \in Urandom : GrbUrandom(t, u)
          \/ GrbLoop(t)
          \/ Acquire(t)
    \/ Tick

Spec == Init /\ [][Next]_vars

\* One caller of add_entropy and configure, on every argument up to the
\* bounds, for every max_pool_size given to the constructor.
Data == SeqsUpTo(Bytes, MaxData)
ConfigArgs == {1, None} \X (PoolSizes \cup {None})

InitPool == \E mps \in PoolSizes : Constructed(DefaultReseedInterval, mps)

NextPool ==
    \/ \E data \in Data : AddEntropyCall(1, data)
    \/ AddEntropyBody(1)
    \/ \E a \in ConfigArgs : ConfigureCall(1, a[1], a[2])
    \/ ConfigureBody(1)
    \/ AddHardwareEntropy(1)
    \/ \E source \in Data : AuthenticateSource(1, source)
    \/ Acquire(1)

SpecPool == InitPool /\ [][NextPool]_vars

\* One caller of generate_random_number, on every draw of the bytes.
Lows == {-1, 0, 1, 5}
Highs == {-3, -2, -1, 0, 1, 4, 6, 254}

InitNumber == \E ri \in {0, DefaultReseedInterval} : Constructed(ri, MaxPool)

NextNumber ==
    \/ \E low \in Lows, high \in Highs : GenerateRandomNumberCall(1, low, high)
    \/ Acquire(1)
    \/ ReseedBody(1)
    \/ GrnBytes(1)
    \/ GrnResult(1)

SpecNumber == InitNumber /\ [][NextNumber]_vars

\* One caller of add_entropy_sources, on every list of at most MaxSources
\* entries of at most one byte each, under every pool bound.
SourceLists == SeqsUpTo(SeqsUpTo(Bytes, 1), MaxSources)

InitSources == \E mps \in PoolSizes : Constructed(DefaultReseedInterval, mps)

NextSources ==
    \/ \E sources \in SourceLists : AddEntropySourcesCall(1, sources)
    \/ AddEntropySourcesLoop(1)
    \/ AddEntropyBody(1)
    \/ \E a \in SmallConfigArgs : ConfigureCall(1, a[1], a[2])
    \/ ConfigureBody(1)
    \/ Acquire(1)

SpecSources == InitSources /\ [][NextSources]_vars

\* One caller of generate_seed, reseed, add_entropy and
\* generate_random_bytes, one call after the other, as the clock advances.
InitChain == \E ri \in ReseedIntervals : Constructed(ri, MaxPool)

NextChain ==
    \/ \E data \in SmallData : AddEntropyCall(1, data)
    \/ AddEntropyBody(1)
    \/ GenerateSeedCall(1)
    \/ GenerateSeedBody(1)
    \/ ReseedCall(1)
    \/ ReseedBody(1)
    \/ \E n \in Lengths : GenerateRandomBytesCall(1, n)
    \/ \E n \in Lengths : GenerateRandomBytesNext(1, n)
    \/ \E u \in Urandom : GrbUrandom(1, u)
    \/ GrbLoop(1)
    \/ Acquire(1)
    \/ Tick

SpecChain == InitChain /\ [][NextChain]_vars

(* ------------------------------- claims ------------------------------- *)
Done(t, op) == pc[t] = "done" /\ call[t].op = op

\* C1: with max_pool_size fixed at construction (any value >= 0, 0
\* included), the pool is never longer than max_pool_size, whatever is added.
C1_PoolWithinBound ==
    ~resized => Len(entropy_pool) <= max_pool_size

\* C2: no thread waits forever for the lock: the thread that holds the
\* lock is never itself waiting to acquire it (the lock is not reentrant,
\* so such a holder never releases it and no call returns any more).
C2_NoDeadlock ==
    \A t \in Threads :
        pc[t] \in LockWait => (lock = 0 \/ pc[lock] \notin LockWait)

\* C3: with max_pool_size unchanged, once more than max_pool_size bytes
\* have been added the pool is exactly the last max_pool_size bytes added,
\* in their order.
C3_PoolIsNewestBytes ==
    (~resized /\ Len(added) > max_pool_size)
        => entropy_pool = LastN(added, max_pool_size)

\* s is a suffix of u.
IsSuffix(s, u) == Len(s) <= Len(u) /\ s = LastN(u, Len(s))

\* C4: every generate_random_bytes(n) that returns, returns exactly n
\* bytes, also when calls of several threads overlap (so the lengths
\* returned add up to the lengths requested); the pool still holds bytes
\* that were added, in their order, and the seed is empty or one digest.
C4_OutputLength ==
    /\ \A t \in Threads :
          Done(t, "generate_random_bytes")
              => ret[t].kind = "return" /\ Len(ret[t].val) = call[t].args[1]
    /\ IsSuffix(entropy_pool, added)
    /\ Len(seed) \in {0, DigestSize}

\* Two overlapping calls: one has returned its 33 bytes while the other,
\* asked for 32 bytes, is inside its loop with a block drawn.
C4_Witness ==
    /\ Done(1, "generate_random_bytes")
    /\ call[1].args[1] = DigestSize + 1
    /\ Len(ret[1].val) = DigestSize + 1
    /\ call[2].op = "generate_random_bytes"
    /\ call[2].args[1] = DigestSize
    /\ pc[2] = "grb_loop"
    /\ Len(random_bytes[2]) = DigestSize

\* C5: generate_random_number(low, high) with high < low fails with
\* InvalidRangeError; it never returns an integer.
C5_InvalidRangeRejected ==
    \A t \in Threads :
        (Done(t, "generate_random_number") /\ call[t].args[2] < call[t].args[1])
            => ret[t].kind = "InvalidRangeError"

\* C6: generate_random_number(low, high) with low <= high returns, for
\* every value of the bytes drawn, an integer r with low <= r <= high.
C6_RangeMembership ==
    \A t \in Threads :
        (Done(t, "generate_random_number") /\ call[t].args[1] <= call[t].args[2])
            => /\ ret[t].kind = "return"
               /\ call[t].args[1] <= ret[t].val[1]
               /\ ret[t].val[1] <= call[t].args[2]

\* The largest value of the range is returned.
C6_Witness ==
    /\ Done(1, "generate_random_number")
    /\ call[1].args = <<1, 6>>
    /\ ret[1] = Returned(<<6>>)

\* The number of draws of num_bytes bytes from which line 125 makes v.
Preimages(low, range_size, v) ==
    Cardinality({d \in [1..NumBytes(range_size) -> Byte] :
                    RandomNumber(low, range_size, FromBytesBig(d)) = v})

\* C7: no modulo bias: for low <= high, every value of [low, high] is
\* produced by the same number of the draws that the call accepts (the
\* call accepts every draw: it never draws again).
C7_NoModuloBias ==
    \A t \in Threads :
        (pc[t] = "grn_bytes" /\ call[t].args[1] <= call[t].args[2])
            => LET low == call[t].args[1]
                   range_size == RangeSize(low, call[t].args[2])
               IN  \A v \in low..call[t].args[2] :
                      Preimages(low, range_size, v) = Preimages(low, range_size, low)

\* The places of generate_random_bytes after its first statement has
\* acquired the lock and before it returns.
InsideGenerate(t) ==
    /\ call[t].op = "generate_random_bytes"
    /\ pc[t] \in {"rs_body", "gs_lock", "gs_body", "grb_urandom", "grb_loop"}

\* C8: generate_random_bytes is atomic: from its reseed decision to its
\* return the calling thread holds the lock, so no step of add_entropy,
\* configure or another generate_random_bytes fits in between.
C8_GenerateAtomic ==
    \A t \in Threads : InsideGenerate(t) => lock = t

\* The step of thread t that runs the body of configure.
ConfigureStep(t) == pc[t] = "cf_body" /\ pc'[t] = "done"

\* C9: configure(max_pool_size = m) with m less than the pool's length
\* leaves, on return, the m most recent bytes of the pool.
C9_ShrinkEvicts ==
    [][\A t \in Threads :
          (/\ ConfigureStep(t)
           /\ call[t].args[2] # None
           /\ call[t].args[2] < Len(entropy_pool))
              => entropy_pool' = LastN(entropy_pool, call[t].args[2])]_vars

\* C10: configure sets exactly the fields whose argument is supplied; a
\* field whose argument is None keeps its value, and seed and
\* last_reseed_time are unchanged.
C10_ConfigureFrame ==
    [][\A t \in Threads :
          ConfigureStep(t)
              => /\ reseed_interval' =
                       (IF call[t].args[1] = None THEN reseed_interval ELSE call[t].args[1])
                 /\ max_pool_size' =
                       (IF call[t].args[2] = None THEN max_pool_size ELSE call[t].args[2])
                 /\ seed' = seed
                 /\ last_reseed_time' = last_reseed_time]_vars

\* configure(max_pool_size = 0) has returned on a generator that holds a
\* seed: the bound is the new one and the interval is the constructor's.
C10_Witness ==
    /\ Done(1, "configure")
    /\ call[1].args = <<None, 0>>
    /\ max_pool_size = 0
    /\ reseed_interval = DefaultReseedInterval
    /\ seed # <<>>

\* C11: add_entropy with empty data raises nothing and returns with the
\* lock released; the pool, the seed, last_reseed_time and the
\* configuration are as they were.
C11_EmptyAddIsNoOp ==
    [][\A t \in Threads :
          (/\ pc[t] = "ae_body"
           /\ call[t].op = "add_entropy"
           /\ call[t].args[1] = <<>>
           /\ pc'[t] # pc[t])
              => /\ fields' = fields
                 /\ lock' = 0
                 /\ pc'[t] = "done"
                 /\ ret'[t] = Returned(<<>>)]_vars

\* add_entropy(b"") has returned on a pool that is longer than a non-zero
\* max_pool_size (configure lowered the bound under it).
C11_Witness ==
    /\ Done(1, "add_entropy")
    /\ call[1].args[1] = <<>>
    /\ max_pool_size > 0
    /\ Len(entropy_pool) > max_pool_size

\* The call of thread t is generate_random_bytes(n) and the call the same
\* caller made just before it was op.
CalledAfter(t, n, op) ==
    /\ call[t].op = "generate_random_bytes"
    /\ call[t].args[1] = n
    /\ "after" \in DOMAIN call[t]
    /\ call[t].after.op = op

\* C12: of two generate_random_bytes(32) calls made one after the other on
\* the same generator, the second never returns what the first returned,
\* whatever the randomness drawn.
C12_ChainAdvances ==
    \A t \in Threads :
        (/\ pc[t] = "done"
         /\ CalledAfter(t, DigestSize, "generate_random_bytes")
         /\ call[t].after.args[1] = DigestSize)
            => ret[t].val # call[t].after.ret.val

\* C13: with no provider injected, add_hardware_entropy() and
\* authenticate_source(source) end in an explicit NotSupported outcome,
\* never in a plain return.
C13_StubsReportNotSupported ==
    \A t \in Threads :
        (Done(t, "add_hardware_entropy") \/ Done(t, "authenticate_source"))
            => ret[t].kind = "NotSupported"

\* C14: at the start of a generate_random_bytes call the reseed is decided
\* exactly when the bytes added since the last reseed reach the byte
\* threshold or the time since the last reseed reaches the time threshold.
\* (Stated for a generator that has never derived a seed, where the bytes
\* added since the last reseed are all the bytes added; the only threshold
\* the generator holds is reseed_interval.)
C14_ReseedRule ==
    \A t \in Threads :
        (pc[t] = "rs_body" /\ call[t].op = "generate_random_bytes" /\ seed = <<>>)
            => (ReseedDue <=> (\/ Len(added) >= reseed_interval
                               \/ now - last_reseed_time >= reseed_interval))

\* The call of thread t has found the reseed condition true at line 74
\* and is at line 75, in generate_seed, at its `with self.lock:`.
ReseedDecided(t) ==
    /\ call[t].op \in {"reseed", "generate_random_bytes"}
    /\ pc[t] = "gs_lock"

\* C15: a reseed or generate_random_bytes call that finds the reseed
\* condition true completes, with the seed the hash of the pool and
\* last_reseed_time the current time: having decided to reseed, the call
\* can take its next step, the one that derives the seed.
C15_ReseedCompletes ==
    \A t \in Threads : ReseedDecided(t) => ENABLED Acquire(t)

\* C16: the bytes returned are determined by the seed and the chain state
\* alone, with no randomness drawn during the call: the first block
\* returned after a seed derivation is the hash of the seed. (One caller:
\* generate_seed() and then generate_random_bytes(32).)
C16_ChainRootedInSeed ==
    \A t \in Threads :
        (pc[t] = "done" /\ CalledAfter(t, DigestSize, "generate_seed"))
            => SliceTo(ret[t].val, DigestSize) = Sha256(seed)

\* Thread t is inside a `with self.lock:` block: in the body of
\* add_entropy, configure, generate_seed or reseed, or at line 75 of
\* reseed, which calls generate_seed from inside the block.
InSection(t) ==
    \/ pc[t] \in {"ae_body", "cf_body", "gs_body", "rs_body"}
    \/ pc[t] = "gs_lock" /\ call[t].op # "generate_seed"

\* At most one thread is inside a section, and it holds the lock.
SectionsExclusive ==
    /\ \A t \in Threads : InSection(t) => lock = t
    /\ Cardinality({t \in Threads : InSection(t)}) <= 1

\* C17: at most one thread at a time is inside a section that reads or
\* writes entropy_pool, seed, last_reseed_time, reseed_interval or
\* max_pool_size, and every step that changes one of them is a step of
\* the thread that is inside its section, holding the lock.
C17_MutualExclusion ==
    [][/\ SectionsExclusive
       /\ SectionsExclusive'
       /\ fields' # fields
             => \E t \in Threads : InSection(t) /\ lock = t /\ pc'[t] # pc[t]]_vars

\* One thread is in the body of add_entropy while the other waits at
\* the lock of configure.
C17_Witness ==
    /\ pc[1] = "ae_body"
    /\ lock = 1
    /\ pc[2] = "cf_lock"

\* The pool after add_entropy(sources[1]), add_entropy(sources[2]), ...
\* in this order, from pool, under bound mps.
RECURSIVE AddedInOrder(_, _, _)
AddedInOrder(pool, sources, mps) ==
    IF sources = <<>> THEN pool
    ELSE AddedInOrder(PoolAfterAdd(pool, Head(sources), mps), Tail(sources), mps)

\* C18: when add_entropy_sources(sources) returns, with no other call in
\* between, the pool is the one that add_entropy on each entry in input
\* order would have left; an empty entry neither changes the pool nor
\* stops the entries after it.
C18_BatchEqualsSequential ==
    \A t \in Threads :
        Done(t, "add_entropy_sources")
            => /\ entropy_pool =
                    AddedInOrder(call[t].before, call[t].args[1], max_pool_size)
               /\ call[t].i = Len(call[t].args[1]) + 1
               /\ ret[t] = Returned(<<>>)

\* A call returned whose list has an empty entry followed by a non-empty
\* one, on a pool that was not empty and that the call cut to its bound.
C18_Witness ==
    /\ Done(1, "add_entropy_sources")
    /\ \E k \in 1..(Len(call[1].args[1]) - 1) :
          /\ call[1].args[1][k] = <<>>
          /\ call[1].args[1][k + 1] # <<>>
    /\ call[1].before # <<>>
    /\ max_pool_size > 0
    /\ Len(call[1].before) + TotalLen(call[1].args[1]) > max_pool_size
    /\ Len(entropy_pool) = max_pool_size

\* A step of thread t in a call of generate_random_bytes, the call itself
\* included.
GenerateStep(t) ==
    /\ call'[t].op = "generate_random_bytes"
    /\ \/ pc'[t] # pc[t]
       \/ prng'[t] # prng[t]
       \/ random_bytes'[t] # random_bytes[t]

\* Thread t is in a call of generate_random_bytes that found a reseed due.
FoundReseedDue(t) ==
    \/ pc[t] = "rs_body" /\ ReseedDue
    \/ pc[t] \in {"gs_lock", "gs_body"}

\* C19: no step of a generate_random_bytes call changes entropy_pool, and
\* a call that did not find a reseed due changes none of entropy_pool,
\* seed, last_reseed_time, reseed_interval and max_pool_size.
C19_GenerateFrame ==
    [][\A t \in Threads :
          GenerateStep(t)
              => /\ entropy_pool' = entropy_pool
                 /\ ~FoundReseedDue(t) => fields' = fields]_vars

\* generate_random_bytes(32) has returned its 32 bytes on a generator
\* with bytes in the pool and a seed, after the clock has advanced past
\* last_reseed_time without a reseed coming due.
C19_Witness ==
    /\ Done(1, "generate_random_bytes")
    /\ call[1].args = <<DigestSize>>
    /\ ret[1] # NoRet
    /\ entropy_pool # <<>>
    /\ seed # <<>>
    /\ now > last_reseed_time
    /\ ~ReseedDue

\* C20: the seed is empty (never seeded) or exactly 32 bytes long, so
\* len(seed) >= reseed_interval, the first disjunct of the reseed
\* condition, holds only when reseed_interval <= 32, and never under the
\* default reseed_interval of 10000, whatever was added to the pool.
C20_SeedLength ==
    /\ Len(seed) \in {0, DigestSize}
    /\ Len(seed) >= reseed_interval => reseed_interval <= DigestSize
    /\ reseed_interval = DefaultReseedInterval => ~(Len(seed) >= reseed_interval)

\* A seed has been made, under the default interval, after as many bytes
\* were added as the model allows.
C20_Witness ==
    /\ Len(seed) = DigestSize
    /\ reseed_interval = DefaultReseedInterval
    /\ Len(added) = MaxTotal
    /\ entropy_pool # <<>>

====
